---- MODULE Spec2Model ----
(***************************************************************************)
(* Model of the uplinkng "cp" command (cmd/uplinkng/cmd_cp.go):            *)
(*   parseRange    - the byte-range parser,                                *)
(*   copyFile      - one single-object transfer,                           *)
(*   parallelCopy  - the chunked, bounded-parallel part-by-part copy,      *)
(*   copyRecursive - one file task per entry of a recursive listing.       *)
(* Strings are sequences of one-character strings.  Errors are tags.       *)
(* The handles, the filesystem and the listing are collaborators: every    *)
(* call of theirs that can fail does so nondeterministically, and the      *)
(* command's context can be cancelled at any moment.                       *)
(***************************************************************************)
EXTENDS Integers, Sequences, FiniteSets, TLC

(***************************************************************************)
(* Bounds of the model.                                                    *)
(***************************************************************************)
\* longest range expression (after the optional "bytes=" prefix) drawn in SpecRange
MaxRangeLen == 5
\* width of the signed integers of the model (int64 in the program, scaled)
IntBits == 16
\* largest --parallelism drawn
MaxP == 2
\* largest --parallelism-chunk-size drawn (in bytes, scaled)
MaxChunk == 2
\* most parts the source of a single-file copy has
MaxParts == 3
\* largest --transfers drawn
MaxTransfers == 2

(***************************************************************************)
(* Strings.                                                                *)
(***************************************************************************)
Digits == <<"0", "1", "2", "3", "4", "5", "6", "7", "8", "9">>

IsDigit(c) == \E d \in 1..10 : Digits[d] = c

DigitVal(c) == (CHOOSE d \in 1..10 : Digits[d] = c) - 1

BytesPrefix == <<"b", "y", "t", "e", "s", "=">>

\* the characters range expressions are drawn from
RangeChars == {"0", "1", "2", "-", ",", "x", " "}

RECURSIVE TrimLeft(_)
TrimLeft(s) == IF s # <<>> /\ Head(s) = " " THEN TrimLeft(Tail(s)) ELSE s

RECURSIVE TrimRight(_)
TrimRight(s) ==
    IF s # <<>> /\ s[Len(s)] = " " THEN TrimRight(SubSeq(s, 1, Len(s) - 1)) ELSE s

\* strings.TrimSpace
TrimSpace(s) == TrimRight(TrimLeft(s))

\* strings.HasPrefix
HasPrefix(s, pre) == Len(s) >= Len(pre) /\ SubSeq(s, 1, Len(pre)) = pre

\* strings.TrimPrefix: removes the prefix once, when present
TrimPrefix(s, pre) == IF HasPrefix(s, pre) THEN SubSeq(s, Len(pre) + 1, Len(s)) ELSE s

\* strings.Contains for a one-character substring
Contains(s, c) == \E n \in 1..Len(s) : s[n] = c

\* strings.Index for a one-character substring: 0-based index of the first
\* occurrence, -1 when there is none
Index(s, c) ==
    IF Contains(s, c)
    THEN (CHOOSE n \in 1..Len(s) : s[n] = c /\ \A m \in 1..(n - 1) : s[m] # c) - 1
    ELSE -1

(***************************************************************************)
(* Signed integers of IntBits bits.                                        *)
(***************************************************************************)
MaxInt == 2 ^ (IntBits - 1) - 1
MinInt == -(2 ^ (IntBits - 1))

\* two's complement wrap-around of an arithmetic result
Wrap(x) == ((x - MinInt) % (2 ^ IntBits)) + MinInt

\* value of a non-empty digit string, saturated just above MaxInt
RECURSIVE DecVal(_, _)
DecVal(s, acc) ==
    IF s = <<>> THEN acc
    ELSE IF acc > MaxInt + 1 THEN acc
    ELSE DecVal(Tail(s), acc * 10 + DigitVal(Head(s)))

\* strconv.ParseInt(s, 10, 64): optional sign, then one or more digits, in range
ParseInt(s) ==
    IF s = <<>> THEN [ok |-> FALSE, val |-> 0]
    ELSE LET neg  == Head(s) = "-"
             digs == IF Head(s) \in {"+", "-"} THEN Tail(s) ELSE s
         IN  IF digs = <<>> \/ \E n \in 1..Len(digs) : ~IsDigit(digs[n])
             THEN [ok |-> FALSE, val |-> 0]
             ELSE LET n == DecVal(digs, 0)
                  IN  IF (~neg /\ n > MaxInt) \/ (neg /\ n > MaxInt + 1)
                      THEN [ok |-> FALSE, val |-> 0]
                      ELSE [ok |-> TRUE, val |-> IF neg THEN -n ELSE n]

(***************************************************************************)
(* parseRange.                                                             *)
(***************************************************************************)
RangeOk(offset, length) == [offset |-> offset, length |-> length, err |-> "nil"]
RangeErr(msg) == [offset |-> 0, length |-> 0, err |-> msg]

\* the final switch without the starti > endi case
RangeSwitchNoOrder(start, end, starti, endi) ==
    CASE start = <<>> /\ end = <<>> -> RangeErr("invalid range")
      [] start = <<>> /\ end # <<>> -> RangeOk(Wrap(-endi), -1)
      [] start # <<>> /\ end = <<>> -> RangeOk(starti, -1)
      [] OTHER ->
            IF starti < 0 THEN RangeErr("invalid range: negative start")
            ELSE RangeOk(starti, Wrap(endi - starti + 1))

\* lines 386-399: the final switch of parseRange, on the two trimmed halves
\* and their values
RangeSwitch(start, end, starti, endi) ==
    CASE start = <<>> /\ end = <<>> -> RangeErr("invalid range")
      [] start = <<>> /\ end # <<>> -> RangeOk(Wrap(-endi), -1)
      [] start # <<>> /\ end = <<>> -> RangeOk(starti, -1)
      [] OTHER ->
            IF starti < 0 THEN RangeErr("invalid range: negative start")
            ELSE IF starti > endi THEN RangeErr("invalid range: start > end")
            ELSE RangeOk(starti, Wrap(endi - starti + 1))

\* parseRange without the prefix strip: treats "bytes=" as part of the start
parseRangeNoPrefix(r0) ==
    LET r == TrimSpace(r0)
    IN  IF r = <<>> THEN RangeOk(0, -1)
        ELSE IF Contains(r, ",") THEN RangeErr("invalid range: must be single range")
        ELSE LET idx == Index(r, "-")
             IN  IF idx < 0 THEN RangeErr("invalid range: no -")
                 ELSE LET start == TrimSpace(SubSeq(r, 1, idx))
                          end   == TrimSpace(SubSeq(r, idx + 2, Len(r)))
                          ps    == ParseInt(start)
                          pe    == ParseInt(end)
                      IN  IF start # <<>> /\ ~ps.ok THEN RangeErr("invalid range: syntax")
                          ELSE IF end # <<>> /\ ~pe.ok THEN RangeErr("invalid range: syntax")
                          ELSE RangeSwitch(start, end, ps.val, pe.val)

\* lines 353-385: parseRange
parseRange(r0) ==
    LET r == TrimPrefix(TrimSpace(r0), BytesPrefix)
    IN  IF r = <<>> THEN RangeOk(0, -1)
        ELSE IF Contains(r, ",") THEN RangeErr("invalid range: must be single range")
        ELSE LET idx == Index(r, "-")
             IN  IF idx < 0 THEN RangeErr("invalid range: no -")
                 ELSE LET start == TrimSpace(SubSeq(r, 1, idx))
                          end   == TrimSpace(SubSeq(r, idx + 2, Len(r)))
                          ps    == ParseInt(start)
                          pe    == ParseInt(end)
                      IN  IF start # <<>> /\ ~ps.ok THEN RangeErr("invalid range: syntax")
                          ELSE IF end # <<>> /\ ~pe.ok THEN RangeErr("invalid range: syntax")
                          ELSE RangeSwitch(start, end, ps.val, pe.val)

(***************************************************************************)
(* Locations (package ulloc): a local path, a remote bucket and key, or    *)
(* the standard stream.  Paths and keys are strings; the separator is "/". *)
(***************************************************************************)
NewLocal(path) == [kind |-> "local", bucket |-> <<>>, key |-> path]

NewRemote(bucket, key) == [kind |-> "remote", bucket |-> bucket, key |-> key]

NewStd == [kind |-> "std", bucket |-> <<>>, key |-> <<"-">>]

\* no location: a parameter that has not been bound yet
NoLoc == [kind |-> "none", bucket |-> <<>>, key |-> <<>>]

Std(loc) == loc.kind = "std"

Remote(loc) == loc.kind = "remote"

Local(loc) == loc.kind = "local"

\* the location ends in a separator
Directoryish(loc) ==
    ~Std(loc) /\ loc.key # <<>> /\ loc.key[Len(loc.key)] = "/"

\* the location with a trailing separator, when it had none
AsDirectoryish(loc) ==
    IF Std(loc) \/ Directoryish(loc) THEN loc
    ELSE [loc EXCEPT !.key = Append(@, "/")]

RECURSIVE TrimSeparators(_)
TrimSeparators(s) ==
    IF s # <<>> /\ s[Len(s)] = "/" THEN TrimSeparators(SubSeq(s, 1, Len(s) - 1)) ELSE s

\* the location without any trailing separator
Undirectoryish(loc) ==
    IF Std(loc) THEN loc ELSE [loc EXCEPT !.key = TrimSeparators(@)]

\* the suffix appended to the path or key
AppendKey(loc, suffix) ==
    IF Std(loc) THEN loc ELSE [loc EXCEPT !.key = @ \o suffix]

\* the path of loc relative to base: loc is of the kind and bucket of base
\* and its path or key starts with the one of base
RelativeTo(base, loc) ==
    IF /\ ~Std(base) /\ loc.kind = base.kind /\ loc.bucket = base.bucket
       /\ HasPrefix(loc.key, base.key)
    THEN [ok |-> TRUE, rel |-> TrimPrefix(loc.key, base.key)]
    ELSE [ok |-> FALSE, rel |-> <<>>]

\* 1-based index of the last separator of s, 0 when there is none
LastSeparator(s) ==
    IF Contains(s, "/")
    THEN CHOOSE n \in 1..Len(s) : s[n] = "/" /\ \A m \in (n + 1)..Len(s) : s[m] # "/"
    ELSE 0

\* the last segment of the path or key; none for the standard stream and
\* for an empty last segment
Base(loc) ==
    LET b == SubSeq(loc.key, LastSeparator(loc.key) + 1, Len(loc.key))
    IN  IF Std(loc) \/ b = <<>> THEN [ok |-> FALSE, base |-> <<>>]
        ELSE [ok |-> TRUE, base |-> b]

\* joinDestWith that keeps the trailing separator
joinDestWithNoStrip(dest, suffix) == AppendKey(dest, suffix)

\* lines 251-261: the suffix appended; a local directoryish result loses
\* its trailing separators
joinDestWith(dest, suffix) ==
    LET d == AppendKey(dest, suffix)
    IN  IF Local(d) /\ Directoryish(d) THEN Undirectoryish(d) ELSE d

(***************************************************************************)
(* State.                                                                  *)
(***************************************************************************)
VARIABLES
    source,                 \* cmdCp.source
    dest,                   \* cmdCp.dest
    items,                  \* the entries the recursive listing of source holds
    lists,                  \* calls of fs.List
    dryrun,                 \* cmdCp.dryrun
    byteRange,              \* cmdCp.byteRange
    parallelism,            \* cmdCp.parallelism
    parallelismChunkSize,   \* cmdCp.parallelismChunkSize
    recursive,              \* cmdCp.recursive
    transfers,              \* cmdCp.transfers
    clctxDone,              \* the command's context (clctx) has been cancelled
    pc,                     \* position of Execute / copyRecursive
    listed,                 \* entries iter.Next has returned so far
    iterErr,                \* iter.Err() is not nil
    task,                   \* the file task of every listed entry
    es,                     \* errs.Group of copyRecursive
    result,                 \* what Execute returns (empty: nil)
    cf                      \* the copyFile / parallelCopy call of every transfer

vars == <<source, dest, items, lists,
          dryrun, byteRange, parallelism, parallelismChunkSize, recursive, transfers,
          clctxDone, pc, listed, iterErr, task, es, result, cf>>

\* the transfers (copyFile calls) of one command: the single file, or the
\* entries of the recursive listing in listing order
Tasks == {1, 2, 3}

\* error values: <<what, part index>>
ErrParse      == <<"parseRange", 0>>
ErrOpen       == <<"fs.Open", 0>>
ErrCreate     == <<"fs.Create", 0>>
ErrSetOffset  == <<"src.SetOffset", 0>>
ErrSrcPart(n) == <<"src.NextPart", n>>
ErrDstPart(n) == <<"dst.NextPart", n>>
ErrWorker(n)  == <<"part", n>>
ErrCommit     == <<"dst.Commit", 0>>
ErrOpenFilesystem == <<"OpenFilesystem", 0>>
ErrRecRange   == <<"recursive copy with byte range", 0>>
ErrList       == <<"fs.List", 0>>
ErrIter       == <<"iter.Err", 0>>
ErrRelative(n) == <<"RelativeTo", n>>
ErrFile(n)    == <<"copyFile", n>>
ErrStd        == <<"cannot recursively copy to stdin/stdout", 0>>
ErrNoBase     == <<"cannot find base name for source", 0>>

\* a copyFile call that has not been entered
NewCall == [
    pc           |-> "idle",
    source       |-> NoLoc,   \* source of copyFile
    dest         |-> NoLoc,   \* dest of copyFile
    calls        |-> 0,       \* calls of copyFile
    opened       |-> NoLoc,   \* the location fs.Open was called with
    created      |-> NoLoc,   \* the location fs.Create was called with
    rng          |-> [offset |-> 0, length |-> 0, err |-> "unset"],
                              \* offset, length, err of parseRange (line 208)
    length       |-> 0,       \* length of parallelCopy: what remains to request
    i            |-> 0,       \* the loop index
    chunk        |-> 0,       \* chunk of the current iteration
    parts        |-> <<>>,    \* the parts acquired, in order
    es           |-> {},      \* errs.Group of parallelCopy
    cancelled    |-> FALSE,   \* cancel() of parallelCopy's context was called
    perr         |-> {},      \* what parallelCopy returns (empty: nil)
    ret          |-> {},      \* what copyFile returns (empty: nil)
    opens        |-> 0,       \* calls of fs.Open
    creates      |-> 0,       \* calls of fs.Create
    setOffsets   |-> 0,       \* calls of src.SetOffset
    srcNextParts |-> 0,       \* calls of src.NextPart
    dstNextParts |-> 0,       \* calls of dst.NextPart
    requested    |-> 0,       \* sum of the sizes passed to src.NextPart
    dstCommits   |-> 0,       \* calls of dst.Commit
    dstAborts    |-> 0,       \* calls of dst.Abort
    srcCloses    |-> 0,       \* calls of src.Close
    eof          |-> FALSE,   \* src.NextPart reported io.EOF
    acqErr       |-> FALSE,   \* src.NextPart or dst.NextPart failed
    refused      |-> FALSE,   \* limiter.Go returned false
    commitFailed |-> FALSE ]  \* dst.Commit failed

\* a part pair: the read part rh and, once acquired, the write part wh
NewPart(size) == [
    size    |-> size,
    wh      |-> FALSE,     \* dst.NextPart returned the write part
    whSize  |-> 0,         \* the size dst.NextPart was called with
    w       |-> "held",    \* held | run | fin | done: the worker of the pair
    err     |-> "nil",     \* nil | copy | commit: what the worker's err holds
    closes  |-> 0,         \* calls of rh.Close
    commits |-> 0,         \* calls of wh.Commit
    aborts  |-> 0 ]        \* calls of wh.Abort

\* the context ctx of parallelCopy (derived from clctx) is done
CtxDone(k) == clctxDone \/ cf[k].cancelled

\* the workers of call k that hold a slot of its limiter
Running(k) == {n \in 1..Len(cf[k].parts) : cf[k].parts[n].w \in {"run", "fin"}}

\* the byte ranges the command is run with
RangeInputs == {
    <<>>,
    <<"0", "-", "0">>, <<"0", "-", "1">>, <<"0", "-", "2">>,
    BytesPrefix \o <<"1", "-", "2">>,
    <<"1", "-">>, <<"-", "1">>, <<"2", "-", "1">> }

\* the byte ranges a recursive copy, and a copy over the locations of
\* InitLocations, is run with
TreeRangeInputs == {<<>>, <<"0", "-", "1">>}

\* an entry of a listing (iter.Item()): its location, and the number of
\* parts the object has
Item(loc, parts) == [Loc |-> loc, parts |-> parts]

\* the single file copied: remote object sj://b/foo into local directory d/
FileSource == NewRemote(<<"b">>, <<"f", "o", "o">>)
FileDest == NewLocal(<<"d", "/">>)

\* the tree copied: local directory a/ onto local directory d/
TreeSource == NewLocal(<<"a", "/">>)
TreeDest == NewLocal(<<"d", "/">>)

\* the listings of the tree: two entries of one part under a/, an entry
\* under a/ followed by one that is not under a/, or one entry of two parts
TreeListings == {
    <<Item(NewLocal(<<"a", "/", "1">>), 1), Item(NewLocal(<<"a", "/", "b", "/", "3">>), 1)>>,
    <<Item(NewLocal(<<"a", "/", "1">>), 1), Item(NewLocal(<<"c", "/", "2">>), 1)>>,
    <<Item(NewLocal(<<"a", "/", "2">>), 2)>> }

\* the state when Execute is called, for a single-file copy
InitWith(ranges, chunkSizes) ==
    /\ source = FileSource
    /\ dest = FileDest
    /\ items = <<>>
    /\ lists = 0
    /\ dryrun \in BOOLEAN
    /\ byteRange \in ranges
    /\ parallelism \in 1..MaxP
    /\ parallelismChunkSize \in chunkSizes
    /\ recursive = FALSE
    /\ transfers = 1
    /\ clctxDone = FALSE
    /\ pc = "Execute"
    /\ listed = 0
    /\ iterErr = FALSE
    /\ task = [k \in Tasks |-> "none"]
    /\ es = {}
    /\ result = {}
    /\ cf = [k \in Tasks |-> NewCall]

\* the most parts an entry of a listing has
MostParts(listing) ==
    CHOOSE m \in {listing[n].parts : n \in 1..Len(listing)} :
        \A n \in 1..Len(listing) : listing[n].parts <= m

\* the state when Execute is called, for a recursive copy; --parallelism is
\* drawn up to the most parts an entry has (more slots than parts change
\* nothing)
InitTree ==
    /\ source = TreeSource
    /\ dest = TreeDest
    /\ items \in TreeListings
    /\ lists = 0
    /\ dryrun \in BOOLEAN
    /\ byteRange \in TreeRangeInputs
    /\ parallelism \in {p \in 1..MaxP : p <= MostParts(items)}
    /\ parallelismChunkSize = 1
    /\ recursive = TRUE
    /\ transfers \in 1..MaxTransfers
    /\ clctxDone = FALSE
    /\ pc = "Execute"
    /\ listed = 0
    /\ iterErr = FALSE
    /\ task = [k \in Tasks |-> "none"]
    /\ es = {}
    /\ result = {}
    /\ cf = [k \in Tasks |-> NewCall]

Init == InitWith(RangeInputs, 1..MaxChunk) \/ InitTree

\* most parts the source of transfer k has: those of its entry of the
\* recursive listing, MaxParts for the single file
PartsCap(k) == IF recursive THEN items[k].parts ELSE MaxParts

(***************************************************************************)
(* Execute, without --recursive.                                           *)
(***************************************************************************)
Config == <<dryrun, byteRange, parallelism, parallelismChunkSize, recursive, transfers>>

Locs == <<source, dest, items, lists>>

\* what fs.IsLocalDir can answer for a location: a local path is a
\* directory of the file system or not, anything else is not
IsLocalDir(loc) == IF Local(loc) THEN BOOLEAN ELSE {FALSE}

\* lines 95-110: OpenFilesystem, which may fail; the source is made
\* directoryish when it is a local directory, the destination when it is
\* one or the copy is recursive
ExecuteOpen ==
    /\ pc = "Execute"
    /\ \/ /\ pc' = "opened" /\ result' = result
          /\ \E sd \in IsLocalDir(source), dd \in IsLocalDir(dest) :
                /\ source' = IF sd THEN AsDirectoryish(source) ELSE source
                /\ dest' = IF recursive \/ dd THEN AsDirectoryish(dest) ELSE dest
       \/ /\ pc' = "done" /\ result' = {ErrOpenFilesystem}
          /\ UNCHANGED <<source, dest>>
    /\ UNCHANGED <<items, lists, Config, clctxDone, listed, iterErr, task, es, cf>>

\* lines 119-137: the base name of the source joins a directoryish
\* destination; the single file is announced and copyFile called
ExecuteCopyFile ==
    /\ pc = "opened"
    /\ ~recursive
    /\ LET b == IF Directoryish(dest) /\ ~Std(source)
                THEN Base(Undirectoryish(source))
                ELSE [ok |-> TRUE, base |-> <<>>]
       IN  IF ~b.ok
           THEN /\ pc' = "done"
                /\ result' = {ErrNoBase}
                /\ UNCHANGED <<dest, cf>>
           ELSE /\ pc' = "copyFile"
                /\ dest' = joinDestWith(dest, b.base)
                /\ cf' = [cf EXCEPT ![1].pc = "copyFile",
                                    ![1].calls = @ + 1,
                                    ![1].source = source,
                                    ![1].dest = joinDestWith(dest, b.base)]
                /\ result' = result
    /\ UNCHANGED <<source, items, lists, Config, clctxDone, listed, iterErr, task, es>>

\* line 137: Execute returns what copyFile returned
ExecuteReturn ==
    /\ pc = "copyFile"
    /\ cf[1].pc = "returned"
    /\ pc' = "done"
    /\ result' = cf[1].ret
    /\ UNCHANGED <<Locs, Config, clctxDone, listed, iterErr, task, es, cf>>

\* the user interrupts the command: clctx is cancelled
Cancel ==
    /\ pc # "done"
    /\ ~clctxDone
    /\ clctxDone' = TRUE
    /\ UNCHANGED <<Locs, Config, pc, listed, iterErr, task, es, result, cf>>

(***************************************************************************)
(* Execute with --recursive: copyRecursive.                                *)
(***************************************************************************)
\* the file tasks that hold a slot of copyRecursive's limiter
RunningTasks == {k \in Tasks : task[k] \in {"run", "copy", "print"}}

\* lines 155, 158-163: mu of copyRecursive is held by a task inside fprintln
muHeld == \E k \in Tasks : task[k] = "print"

\* ExecuteRecursive that lists whatever the source and the destination are
ExecuteRecursiveAnyLocation ==
    /\ pc = "opened"
    /\ recursive
    /\ IF byteRange # <<>>
       THEN pc' = "done" /\ result' = {ErrRecRange} /\ lists' = lists
       ELSE \/ pc' = "iter" /\ result' = result /\ lists' = lists + 1
            \/ pc' = "done" /\ result' = {ErrList} /\ lists' = lists + 1
    /\ UNCHANGED <<source, dest, items, Config, clctxDone, listed, iterErr, task, es, cf>>

\* lines 112-117, 140-150: the byte range is refused, then a standard
\* stream as source or destination, else fs.List
ExecuteRecursive ==
    /\ pc = "opened"
    /\ recursive
    /\ IF byteRange # <<>>
       THEN pc' = "done" /\ result' = {ErrRecRange} /\ lists' = lists
       ELSE IF Std(source) \/ Std(dest)
       THEN pc' = "done" /\ result' = {ErrStd} /\ lists' = lists
       ELSE \/ pc' = "iter" /\ result' = result /\ lists' = lists + 1
            \/ pc' = "done" /\ result' = {ErrList} /\ lists' = lists + 1
    /\ UNCHANGED <<source, dest, items, Config, clctxDone, listed, iterErr, task, es, cf>>

\* the destination of an entry taken from its base name alone
EntryDestFlat(rel) == joinDestWith(dest, Base(NewLocal(rel)).base)

\* line 178: the destination of the entry whose path relative to the
\* source is rel
EntryDest(rel) == joinDestWith(dest, rel)

\* lines 172-178: iter.Next, the entry's path relative to the source and
\* its destination; line 176 returns when RelativeTo fails; the listing
\* ends after its last entry, or earlier with an error
copyRecursiveNext ==
    /\ pc = "iter"
    /\ \/ /\ listed < Len(items)
          /\ listed' = listed + 1
          /\ LET r == RelativeTo(source, items[listed + 1].Loc)
             IN  IF r.ok
                 THEN /\ pc' = "Go"
                      /\ cf' = [cf EXCEPT ![listed + 1].source = items[listed + 1].Loc,
                                          ![listed + 1].dest = EntryDest(r.rel)]
                      /\ result' = result
                 ELSE /\ pc' = "done"
                      /\ result' = {ErrRelative(listed + 1)}
                      /\ cf' = cf
          /\ UNCHANGED iterErr
       \/ /\ listed = Len(items)
          /\ pc' = "Wait"
          /\ iterErr' = FALSE
          /\ UNCHANGED <<listed, result, cf>>
       \/ /\ pc' = "Wait"
          /\ iterErr' = TRUE
          /\ UNCHANGED <<listed, result, cf>>
    /\ UNCHANGED <<Locs, Config, clctxDone, task, es>>

\* limiter.Go that starts a file task whatever the number running
copyRecursiveGoUnbounded ==
    /\ pc = "Go"
    /\ IF clctxDone
       THEN pc' = "Wait" /\ task' = task
       ELSE /\ task' = [task EXCEPT ![listed] = "run"]
            /\ pc' = "iter"
    /\ UNCHANGED <<Locs, Config, clctxDone, listed, iterErr, es, result, cf>>

\* lines 153, 180-190: limiter.Go(ctx, task) of a limiter of c.transfers
\* slots: false when ctx is done, else the task starts once a slot is free
copyRecursiveGo ==
    /\ pc = "Go"
    /\ IF clctxDone
       THEN pc' = "Wait" /\ task' = task
       ELSE /\ Cardinality(RunningTasks) < transfers
            /\ task' = [task EXCEPT ![listed] = "run"]
            /\ pc' = "iter"
    /\ UNCHANGED <<Locs, Config, clctxDone, listed, iterErr, es, result, cf>>

\* lines 181-183: the task announces the copy on stdout, under mu, and
\* calls copyFile
taskStart(k) ==
    /\ task[k] = "run"
    /\ ~muHeld
    /\ task' = [task EXCEPT ![k] = "copy"]
    /\ cf' = [cf EXCEPT ![k].pc = "copyFile", ![k].calls = @ + 1]
    /\ UNCHANGED <<Locs, Config, clctxDone, pc, listed, iterErr, es, result>>

\* lines 183-184: copyFile has returned an error; the task takes mu and
\* writes the failure to stderr
taskFail(k) ==
    /\ task[k] = "copy"
    /\ cf[k].pc = "returned"
    /\ cf[k].ret # {}
    /\ ~muHeld
    /\ task' = [task EXCEPT ![k] = "print"]
    /\ UNCHANGED <<Locs, Config, clctxDone, pc, listed, iterErr, es, result, cf>>

\* a task whose failure is written but never added to es
taskFinishDropsError(k) ==
    /\ \/ task[k] = "copy" /\ cf[k].pc = "returned" /\ cf[k].ret = {}
       \/ task[k] = "print"
    /\ task' = [task EXCEPT ![k] = "done"]
    /\ UNCHANGED <<Locs, Config, clctxDone, pc, listed, iterErr, es, result, cf>>

\* lines 183-187: copyFile has returned nil, or the failure is written and
\* mu released: addError adds it to es under mu; the limiter's slot is free
\* again
taskFinish(k) ==
    /\ \/ task[k] = "copy" /\ cf[k].pc = "returned" /\ cf[k].ret = {}
       \/ task[k] = "print"
    /\ task' = [task EXCEPT ![k] = "done"]
    /\ es' = IF cf[k].ret # {} THEN es \cup {ErrFile(k)} ELSE es
    /\ UNCHANGED <<Locs, Config, clctxDone, pc, listed, iterErr, result, cf>>

\* lines 193-200: limiter.Wait, then the listing error, else the file errors
copyRecursiveReturn ==
    /\ pc = "Wait"
    /\ RunningTasks = {}
    /\ pc' = "done"
    /\ result' = IF iterErr THEN {ErrIter} ELSE es
    /\ UNCHANGED <<Locs, Config, clctxDone, listed, iterErr, task, es, cf>>

(***************************************************************************)
(* copyFile.                                                               *)
(***************************************************************************)
Frame == <<Locs, Config, clctxDone, pc, listed, iterErr, task, es, result>>

\* copyFile that ignores --dry-run
copyFileEnterNoDryRun(k) ==
    /\ cf[k].pc = "copyFile"
    /\ LET rng == parseRange(byteRange)
       IN  IF rng.err # "nil"
           THEN cf' = [cf EXCEPT ![k].pc = "returned", ![k].rng = rng,
                                 ![k].ret = {ErrParse}]
           ELSE cf' = [cf EXCEPT ![k].pc = "Open", ![k].rng = rng,
                                 ![k].length = rng.length]
    /\ UNCHANGED Frame

\* lines 204-211: the dry-run return, then parseRange
copyFileEnter(k) ==
    /\ cf[k].pc = "copyFile"
    /\ IF dryrun
       THEN cf' = [cf EXCEPT ![k].pc = "returned", ![k].ret = {}]
       ELSE LET rng == parseRange(byteRange)
            IN  IF rng.err # "nil"
                THEN cf' = [cf EXCEPT ![k].pc = "returned", ![k].rng = rng,
                                      ![k].ret = {ErrParse}]
                ELSE cf' = [cf EXCEPT ![k].pc = "Open", ![k].rng = rng,
                                      ![k].length = rng.length]
    /\ UNCHANGED Frame

\* lines 213-217: fs.Open
copyFileOpen(k) ==
    /\ cf[k].pc = "Open"
    /\ \/ cf' = [cf EXCEPT ![k].pc = "Create", ![k].opens = @ + 1,
                           ![k].opened = cf[k].source]
       \/ cf' = [cf EXCEPT ![k].pc = "returned", ![k].opens = @ + 1,
                           ![k].opened = cf[k].source,
                           ![k].ret = {ErrOpen}]
    /\ UNCHANGED Frame

\* lines 219-223: fs.Create; on failure the deferred mrh.Close runs
copyFileCreate(k) ==
    /\ cf[k].pc = "Create"
    /\ \/ cf' = [cf EXCEPT ![k].pc = "parallelCopy", ![k].creates = @ + 1,
                           ![k].created = cf[k].dest]
       \/ cf' = [cf EXCEPT ![k].pc = "returned", ![k].creates = @ + 1,
                           ![k].created = cf[k].dest,
                           ![k].srcCloses = @ + 1,
                           ![k].ret = {ErrCreate}]
    /\ UNCHANGED Frame

\* lines 231-238, 217, 223: parallelCopy has returned; errs.Wrap of its
\* result, then the deferred mwh.Abort and mrh.Close
copyFileReturn(k) ==
    /\ cf[k].pc = "parallelCopyReturned"
    /\ cf' = [cf EXCEPT ![k].pc = "returned",
                        ![k].ret = cf[k].perr,
                        ![k].dstAborts = @ + 1,
                        ![k].srcCloses = @ + 1]
    /\ UNCHANGED Frame

(***************************************************************************)
(* parallelCopy: the acquisition loop.                                     *)
(***************************************************************************)
\* parallelCopy that seeks for a positive offset only
parallelCopyEnterPositiveOnly(k) ==
    /\ cf[k].pc = "parallelCopy"
    /\ IF cf[k].rng.offset > 0
       THEN \/ cf' = [cf EXCEPT ![k].pc = "loop", ![k].setOffsets = @ + 1]
            \/ cf' = [cf EXCEPT ![k].pc = "parallelCopyReturned",
                                ![k].setOffsets = @ + 1,
                                ![k].perr = {ErrSetOffset}]
       ELSE cf' = [cf EXCEPT ![k].pc = "loop"]
    /\ UNCHANGED Frame

\* lines 271-288: the initial seek; the limiter, the context and the defers
parallelCopyEnter(k) ==
    /\ cf[k].pc = "parallelCopy"
    /\ IF cf[k].rng.offset # 0
       THEN \/ cf' = [cf EXCEPT ![k].pc = "loop", ![k].setOffsets = @ + 1]
            \/ cf' = [cf EXCEPT ![k].pc = "parallelCopyReturned",
                                ![k].setOffsets = @ + 1,
                                ![k].perr = {ErrSetOffset}]
       ELSE cf' = [cf EXCEPT ![k].pc = "loop"]
    /\ UNCHANGED Frame

\* chunk that is never cut down to what remains
ChunkNoMin(chunkSize, length) == chunkSize

\* lines 293-296: chunk of this iteration
Chunk(chunkSize, length) ==
    IF length > 0 /\ chunkSize > length THEN length ELSE chunkSize

\* the loop that takes io.EOF of src.NextPart for an acquisition error
loopSrcNextPartEOFFails(k) ==
    /\ cf[k].pc = "loop"
    /\ cf[k].length # 0
    /\ LET chunk == Chunk(parallelismChunkSize, cf[k].length)
           c     == [cf[k] EXCEPT !.chunk = chunk,
                                  !.length = Wrap(@ - chunk),
                                  !.srcNextParts = @ + 1,
                                  !.requested = @ + chunk]
       IN  \/ /\ Len(cf[k].parts) < PartsCap(k)
              /\ cf' = [cf EXCEPT ![k] = [c EXCEPT !.pc = "dstNextPart",
                                                   !.parts = Append(@, NewPart(chunk))]]
           \/ cf' = [cf EXCEPT ![k] = [c EXCEPT !.pc = "print", !.eof = TRUE,
                                                !.acqErr = TRUE,
                                                !.perr = {ErrSrcPart(c.i)}]]
           \/ cf' = [cf EXCEPT ![k] = [c EXCEPT !.pc = "print",
                                                !.acqErr = TRUE,
                                                !.perr = {ErrSrcPart(c.i)}]]
    /\ UNCHANGED Frame

\* lines 290-303: the loop condition, chunk, length -= chunk, src.NextPart;
\* on an error other than io.EOF mu is taken to write to stderr
loopSrcNextPart(k) ==
    /\ cf[k].pc = "loop"
    /\ cf[k].length # 0
    /\ LET chunk == Chunk(parallelismChunkSize, cf[k].length)
           c     == [cf[k] EXCEPT !.chunk = chunk,
                                  !.length = Wrap(@ - chunk),
                                  !.srcNextParts = @ + 1,
                                  !.requested = @ + chunk]
       IN  \/ /\ Len(cf[k].parts) < PartsCap(k)
              /\ cf' = [cf EXCEPT ![k] = [c EXCEPT !.pc = "dstNextPart",
                                                   !.parts = Append(@, NewPart(chunk))]]
           \/ cf' = [cf EXCEPT ![k] = [c EXCEPT !.pc = "Wait", !.eof = TRUE]]
           \/ cf' = [cf EXCEPT ![k] = [c EXCEPT !.pc = "print",
                                                !.acqErr = TRUE,
                                                !.perr = {ErrSrcPart(c.i)}]]
    /\ UNCHANGED Frame

\* line 290: length == 0 ends the loop
loopExit(k) ==
    /\ cf[k].pc = "loop"
    /\ cf[k].length = 0
    /\ cf' = [cf EXCEPT ![k].pc = "Wait"]
    /\ UNCHANGED Frame

\* the loop that goes on to the next part after dst.NextPart failed
loopDstNextPartGoesOn(k) ==
    /\ cf[k].pc = "dstNextPart"
    /\ LET n == Len(cf[k].parts)
       IN  \/ cf' = [cf EXCEPT ![k].pc = "Go",
                               ![k].dstNextParts = @ + 1,
                               ![k].parts[n].whSize = cf[k].chunk,
                               ![k].parts[n].wh = TRUE]
           \/ cf' = [cf EXCEPT ![k].pc = "loop",
                               ![k].dstNextParts = @ + 1,
                               ![k].parts[n].whSize = cf[k].chunk,
                               ![k].parts[n].closes = @ + 1,
                               ![k].acqErr = TRUE,
                               ![k].perr = {ErrDstPart(cf[k].i)}]
    /\ UNCHANGED Frame

\* lines 310-314: dst.NextPart; on failure rh.Close, and mu is taken to
\* write to stderr
loopDstNextPart(k) ==
    /\ cf[k].pc = "dstNextPart"
    /\ LET n == Len(cf[k].parts)
       IN  \/ cf' = [cf EXCEPT ![k].pc = "Go",
                               ![k].dstNextParts = @ + 1,
                               ![k].parts[n].whSize = cf[k].chunk,
                               ![k].parts[n].wh = TRUE]
           \/ cf' = [cf EXCEPT ![k].pc = "print",
                               ![k].dstNextParts = @ + 1,
                               ![k].parts[n].whSize = cf[k].chunk,
                               ![k].parts[n].closes = @ + 1,
                               ![k].acqErr = TRUE,
                               ![k].perr = {ErrDstPart(cf[k].i)}]
    /\ UNCHANGED Frame

\* lines 304-307, 315-318: the line is written to clctx.Stderr(), mu released
\* and the acquisition error returned
loopErrorPrinted(k) ==
    /\ cf[k].pc = "print"
    /\ cf' = [cf EXCEPT ![k].pc = "deferred"]
    /\ UNCHANGED Frame

\* sync2.Limiter.Go that admits a worker whatever the number running
limiterGoUnbounded(k) ==
    /\ cf[k].pc = "Go"
    /\ LET n == Len(cf[k].parts)
       IN  IF CtxDone(k)
           THEN cf' = [cf EXCEPT ![k].pc = "Wait", ![k].refused = TRUE]
           ELSE cf' = [cf EXCEPT ![k].pc = "loop",
                                 ![k].i = @ + 1,
                                 ![k].parts[n].w = "run"]
    /\ UNCHANGED Frame

\* limiter.Go that drops the pair when no slot is free
limiterGoDrops(k) ==
    /\ cf[k].pc = "Go"
    /\ LET n == Len(cf[k].parts)
       IN  IF CtxDone(k)
           THEN cf' = [cf EXCEPT ![k].pc = "Wait", ![k].refused = TRUE]
           ELSE IF Cardinality(Running(k)) < parallelism
           THEN cf' = [cf EXCEPT ![k].pc = "loop",
                                 ![k].i = @ + 1,
                                 ![k].parts[n].w = "run"]
           ELSE cf' = [cf EXCEPT ![k].pc = "loop", ![k].i = @ + 1]
    /\ UNCHANGED Frame

\* lines 278, 321, 341-343: limiter.Go(ctx, fn) of a limiter of p slots:
\* false when ctx is done, else the worker starts once a slot is free
limiterGo(k) ==
    /\ cf[k].pc = "Go"
    /\ LET n == Len(cf[k].parts)
       IN  IF CtxDone(k)
           THEN cf' = [cf EXCEPT ![k].pc = "Wait", ![k].refused = TRUE]
           ELSE /\ Cardinality(Running(k)) < parallelism
                /\ cf' = [cf EXCEPT ![k].pc = "loop",
                                    ![k].i = @ + 1,
                                    ![k].parts[n].w = "run"]
    /\ UNCHANGED Frame

(***************************************************************************)
(* parallelCopy: the chunk workers.                                        *)
(***************************************************************************)
\* a worker that calls wh.Commit whether io.Copy succeeded or not
workerCopyAlwaysCommits(k, n) ==
    /\ n \in 1..Len(cf[k].parts)
    /\ cf[k].parts[n].w = "run"
    /\ \/ cf' = [cf EXCEPT ![k].parts[n].w = "fin",
                           ![k].parts[n].commits = @ + 1]
       \/ cf' = [cf EXCEPT ![k].parts[n].w = "fin",
                           ![k].parts[n].commits = @ + 1,
                           ![k].parts[n].err = "commit"]
       \/ cf' = [cf EXCEPT ![k].parts[n].w = "fin",
                           ![k].parts[n].commits = @ + 1,
                           ![k].parts[n].err = "copy"]
    /\ UNCHANGED Frame

\* lines 331-334: io.Copy, then wh.Commit when the copy succeeded
workerCopy(k, n) ==
    /\ n \in 1..Len(cf[k].parts)
    /\ cf[k].parts[n].w = "run"
    /\ \/ cf' = [cf EXCEPT ![k].parts[n].w = "fin",
                           ![k].parts[n].commits = @ + 1]
       \/ cf' = [cf EXCEPT ![k].parts[n].w = "fin",
                           ![k].parts[n].commits = @ + 1,
                           ![k].parts[n].err = "commit"]
       \/ cf' = [cf EXCEPT ![k].parts[n].w = "fin",
                           ![k].parts[n].err = "copy"]
    /\ UNCHANGED Frame

\* errs.Group.Add: a nil error is not added
Add(group, err) == IF err = {} THEN group ELSE group \cup err

\* the worker's error, as the value handed to es.Add
WorkerErr(part, n) == IF part.err = "nil" THEN {} ELSE {ErrWorker(n - 1)}

\* a worker whose failure cancels the context of its siblings
workerFinishCancels(k, n) ==
    /\ n \in 1..Len(cf[k].parts)
    /\ cf[k].parts[n].w = "fin"
    /\ cf[k].pc # "print"
    /\ cf' = [cf EXCEPT ![k].es = Add(@, WorkerErr(cf[k].parts[n], n)),
                        ![k].cancelled = @ \/ cf[k].parts[n].err # "nil",
                        ![k].parts[n].aborts = @ + 1,
                        ![k].parts[n].closes = @ + 1,
                        ![k].parts[n].w = "done"]
    /\ UNCHANGED Frame

\* a worker that keeps its slot of the limiter once it is over
workerFinishKeepsSlot(k, n) ==
    /\ n \in 1..Len(cf[k].parts)
    /\ cf[k].parts[n].w = "fin"
    /\ cf[k].parts[n].closes = 0
    /\ cf[k].pc # "print"
    /\ cf' = [cf EXCEPT ![k].es = Add(@, WorkerErr(cf[k].parts[n], n)),
                        ![k].parts[n].aborts = @ + 1,
                        ![k].parts[n].closes = @ + 1]
    /\ UNCHANGED Frame

\* lines 336-339, 322-323: es.Add(err) under mu (which the loop holds while
\* it writes to stderr), then the deferred wh.Abort and rh.Close; the
\* limiter's slot is free again
workerFinish(k, n) ==
    /\ n \in 1..Len(cf[k].parts)
    /\ cf[k].parts[n].w = "fin"
    /\ cf[k].pc # "print"
    /\ cf' = [cf EXCEPT ![k].es = Add(@, WorkerErr(cf[k].parts[n], n)),
                        ![k].parts[n].aborts = @ + 1,
                        ![k].parts[n].closes = @ + 1,
                        ![k].parts[n].w = "done"]
    /\ UNCHANGED Frame

(***************************************************************************)
(* parallelCopy: the end.                                                  *)
(***************************************************************************)
\* the loop's end without limiter.Wait
limiterWaitNoWait(k) ==
    /\ cf[k].pc = "Wait"
    /\ cf' = [cf EXCEPT ![k].pc = "Commit"]
    /\ UNCHANGED Frame

\* line 346: limiter.Wait
limiterWait(k) ==
    /\ cf[k].pc = "Wait"
    /\ Running(k) = {}
    /\ cf' = [cf EXCEPT ![k].pc = "Commit"]
    /\ UNCHANGED Frame

\* dst.Commit whose error is dropped
dstCommitDropped(k) ==
    /\ cf[k].pc = "Commit"
    /\ \/ cf' = [cf EXCEPT ![k].pc = "deferred",
                           ![k].dstCommits = @ + 1,
                           ![k].perr = cf[k].es]
       \/ cf' = [cf EXCEPT ![k].pc = "deferred",
                           ![k].dstCommits = @ + 1,
                           ![k].commitFailed = TRUE,
                           ![k].perr = cf[k].es]
    /\ UNCHANGED Frame

\* lines 348-350: es.Add(dst.Commit(ctx)); return es.Err()
dstCommit(k) ==
    /\ cf[k].pc = "Commit"
    /\ \/ cf' = [cf EXCEPT ![k].pc = "deferred",
                           ![k].dstCommits = @ + 1,
                           ![k].perr = cf[k].es]
       \/ cf' = [cf EXCEPT ![k].pc = "deferred",
                           ![k].dstCommits = @ + 1,
                           ![k].commitFailed = TRUE,
                           ![k].es = Add(@, {ErrCommit}),
                           ![k].perr = Add(cf[k].es, {ErrCommit})]
    /\ UNCHANGED Frame

\* the defers without src.Close()
parallelCopyDeferredNoClose(k) ==
    /\ cf[k].pc = "deferred"
    /\ cf' = [cf EXCEPT ![k].pc = "deferredWait",
                        ![k].cancelled = TRUE,
                        ![k].dstAborts = @ + 1]
    /\ UNCHANGED Frame

\* lines 286-288: the deferred cancel(), dst.Abort(ctx) and src.Close()
parallelCopyDeferred(k) ==
    /\ cf[k].pc = "deferred"
    /\ cf' = [cf EXCEPT ![k].pc = "deferredWait",
                        ![k].cancelled = TRUE,
                        ![k].dstAborts = @ + 1,
                        ![k].srcCloses = @ + 1]
    /\ UNCHANGED Frame

\* line 285: the deferred limiter.Wait, then parallelCopy returns
parallelCopyReturn(k) ==
    /\ cf[k].pc = "deferredWait"
    /\ Running(k) = {}
    /\ cf' = [cf EXCEPT ![k].pc = "parallelCopyReturned"]
    /\ UNCHANGED Frame

(***************************************************************************)
(* Specifications.                                                         *)
(***************************************************************************)
\* the steps of copyRecursive and of its file tasks
NextTree ==
    \/ ExecuteRecursive
    \/ copyRecursiveNext
    \/ copyRecursiveGo
    \/ copyRecursiveReturn
    \/ \E k \in Tasks : taskStart(k) \/ taskFail(k) \/ taskFinish(k)

\* the steps of a single-file copy and of every copyFile call
NextFile ==
    \/ ExecuteOpen
    \/ ExecuteCopyFile
    \/ ExecuteReturn
    \/ Cancel
    \/ \E k \in Tasks :
        \/ copyFileEnter(k)
        \/ copyFileOpen(k)
        \/ copyFileCreate(k)
        \/ copyFileReturn(k)
        \/ parallelCopyEnter(k)
        \/ loopSrcNextPart(k)
        \/ loopExit(k)
        \/ loopDstNextPart(k)
        \/ loopErrorPrinted(k)
        \/ limiterGo(k)
        \/ limiterWait(k)
        \/ dstCommit(k)
        \/ parallelCopyDeferred(k)
        \/ parallelCopyReturn(k)
        \/ \E n \in 1..MaxParts : workerCopy(k, n) \/ workerFinish(k, n)

Next == NextFile \/ NextTree

\* one cp command, of a single file or recursive
Spec == Init /\ [][Next]_vars

\* the same command, had Setup let a chunk size below 1 through to parallelCopy
InitDefensive == InitWith(RangeInputs, {-1, 0})

SpecDefensive == InitDefensive /\ [][NextFile]_vars

\* all sequences over S of length at most n
BoundedSeq(S, n) == UNION {[1..m -> S] : m \in 0..n}

\* every range expression of at most MaxRangeLen characters, with and
\* without the "bytes=" prefix
AllRanges ==
    {pre \o body : pre \in {<<>>, BytesPrefix}, body \in BoundedSeq(RangeChars, MaxRangeLen)}

\* the decimal numeral of n >= 0
RECURSIVE Fmt(_)
Fmt(n) == IF n < 10 THEN <<Digits[n + 1]>> ELSE Fmt(n \div 10) \o <<Digits[(n % 10) + 1]>>

\* the range expressions "N-M" whose numbers are at the upper end of int64
WideRanges ==
    {Fmt(n) \o <<"-">> \o Fmt(m) : n \in {0, 1}, m \in {MaxInt - 1, MaxInt}}

\* copyFile is about to parse --range
InitRange ==
    /\ source = FileSource
    /\ dest = joinDestWith(FileDest, FileSource.key)
    /\ items = <<>>
    /\ lists = 0
    /\ dryrun = FALSE
    /\ byteRange \in AllRanges \cup WideRanges
    /\ parallelism = 1
    /\ parallelismChunkSize = 1
    /\ recursive = FALSE
    /\ transfers = 1
    /\ clctxDone = FALSE
    /\ pc = "copyFile"
    /\ listed = 0
    /\ iterErr = FALSE
    /\ task = [k \in Tasks |-> "none"]
    /\ es = {}
    /\ result = {}
    /\ cf = [k \in Tasks |->
                IF k = 1
                THEN [NewCall EXCEPT !.pc = "copyFile", !.calls = 1,
                                     !.source = FileSource,
                                     !.dest = joinDestWith(FileDest, FileSource.key)]
                ELSE NewCall]

NextRange == \E k \in Tasks : copyFileEnter(k)

\* parseRange alone, on every range expression
SpecRange == InitRange /\ [][NextRange]_vars

\* the sources and destinations of a single-file copy: objects foo/, a/1
\* and the bucket itself, file a/1, directory d/, path d, the standard stream
FileSources == {
    NewRemote(<<"b">>, <<"f", "o", "o", "/">>), NewRemote(<<"b">>, <<"a", "/", "1">>),
    NewRemote(<<"b">>, <<>>), NewLocal(<<"a", "/", "1">>), NewStd }

FileDests == {
    NewLocal(<<"d", "/">>), NewLocal(<<"d">>), NewRemote(<<"b">>, <<"d", "/">>),
    NewRemote(<<"b">>, <<"x">>), NewStd }

\* the sources and destinations of a recursive copy
TreeSources == {NewLocal(<<"a", "/">>), NewRemote(<<"b">>, <<"a", "/">>), NewStd}

TreeDests == {
    NewLocal(<<"d", "/">>), NewLocal(<<"d">>), NewRemote(<<"b">>, <<"d", "/">>), NewStd }

\* what the recursive listing of a source holds: the empty files a/1, a/2
\* and a/b/3 of directory a/; objects a/1 (empty) and a/foo/ (of one part)
\* under prefix a/
Listing(src) ==
    CASE Local(src) -> <<Item(NewLocal(<<"a", "/", "1">>), 0),
                         Item(NewLocal(<<"a", "/", "2">>), 0),
                         Item(NewLocal(<<"a", "/", "b", "/", "3">>), 0)>>
      [] Remote(src) -> <<Item(NewRemote(src.bucket, <<"a", "/", "1">>), 0),
                          Item(NewRemote(src.bucket, <<"a", "/", "f", "o", "o", "/">>), 1)>>
      [] OTHER -> <<>>

\* one cp command of one chunk worker at a time, over the locations above
InitLocations ==
    /\ recursive \in BOOLEAN
    /\ source \in (IF recursive THEN TreeSources ELSE FileSources)
    /\ dest \in (IF recursive THEN TreeDests ELSE FileDests)
    /\ items = (IF recursive THEN Listing(source) ELSE <<>>)
    /\ lists = 0
    /\ dryrun \in BOOLEAN
    /\ byteRange \in TreeRangeInputs
    /\ parallelism = 1
    /\ parallelismChunkSize = 1
    /\ transfers \in (IF recursive THEN 1..MaxTransfers ELSE {1})
    /\ clctxDone = FALSE
    /\ pc = "Execute"
    /\ listed = 0
    /\ iterErr = FALSE
    /\ task = [k \in Tasks |-> "none"]
    /\ es = {}
    /\ result = {}
    /\ cf = [k \in Tasks |-> NewCall]

SpecLocations == InitLocations /\ [][Next]_vars

\* the byte ranges of the fair runs: to the end of the source, a bounded
\* range of three bytes, and a bounded range of one byte after a seek
LiveRanges == {<<>>, <<"0", "-", "2">>, <<"1", "-", "1">>}

\* the state when Execute is called for a single-file copy that is not a
\* dry run, with a chunk size of at least 1; the chunk size varies for the
\* bounded ranges (to the end of the source it only scales the sizes)
InitLive ==
    /\ InitWith(LiveRanges, 1..MaxChunk)
    /\ dryrun = FALSE
    /\ byteRange = <<>> => parallelismChunkSize = 1

\* the steps of the goroutine that runs Execute
ExecuteStep == ExecuteOpen \/ ExecuteCopyFile \/ ExecuteReturn

\* the steps of the goroutine that runs copyFile and parallelCopy of call k
CallStep(k) ==
    \/ copyFileEnter(k)
    \/ copyFileOpen(k)
    \/ copyFileCreate(k)
    \/ copyFileReturn(k)
    \/ parallelCopyEnter(k)
    \/ loopSrcNextPart(k)
    \/ loopExit(k)
    \/ loopDstNextPart(k)
    \/ loopErrorPrinted(k)
    \/ limiterGo(k)
    \/ limiterWait(k)
    \/ dstCommit(k)
    \/ parallelCopyDeferred(k)
    \/ parallelCopyReturn(k)

\* the steps of the goroutine limiter.Go started for part n of call k
WorkerStep(k, n) == workerCopy(k, n) \/ workerFinish(k, n)

\* every goroutine that can take a step eventually takes one, and every
\* collaborator call returns; cancellation (Cancel) may or may not happen
Fairness ==
    /\ WF_vars(ExecuteStep)
    /\ \A k \in Tasks : WF_vars(CallStep(k))
    /\ \A k \in Tasks : \A n \in 1..MaxParts : WF_vars(WorkerStep(k, n))

\* a single-file copy under fair scheduling
SpecLive == InitLive /\ [][NextFile]_vars /\ Fairness

(***************************************************************************)
(* Properties of parallelCopy.                                             *)
(***************************************************************************)
\* parallelCopy of call k has just returned to copyFile
PCReturned(k) == cf[k].pc = "parallelCopyReturned"

\* the part pairs of call k
Parts(k) == 1..Len(cf[k].parts)

\* the part pairs of call k whose worker failed (io.Copy or wh.Commit)
Failed(k) == {n \in Parts(k) : cf[k].parts[n].err # "nil"}

\* the sizes of the first n parts src.NextPart returned, added up
RECURSIVE SumSizes(_, _)
SumSizes(parts, n) == IF n = 0 THEN 0 ELSE parts[n].size + SumSizes(parts, n - 1)

Min(a, b) == IF a < b THEN a ELSE b

\* number of chunks of size c that cover l
CeilDiv(l, c) == (l + c - 1) \div c

\* C1: when parallelCopy returns, every read part src.NextPart returned has
\* been Closed and every write part dst.NextPart returned has been Committed
\* or Aborted, on every exit path.
C1_NoPartLeftUnreleased ==
    \A k \in Tasks :
        PCReturned(k) =>
            \A n \in Parts(k) :
                /\ cf[k].parts[n].closes >= 1
                /\ cf[k].parts[n].wh =>
                       cf[k].parts[n].commits + cf[k].parts[n].aborts >= 1

\* C2: when exactly one chunk worker failed, parallelCopy returns an error
\* and every other worker has Committed its write part; and unless the
\* command was cancelled or an acquisition failed, the loop went on to
\* acquire and submit every chunk of the transfer.
C2_OneFailureSparesSiblings ==
    \A k \in Tasks :
        (PCReturned(k) /\ Cardinality(Failed(k)) = 1) =>
            /\ cf[k].perr # {}
            /\ \A n \in Parts(k) \ Failed(k) :
                   cf[k].parts[n].w = "done" => cf[k].parts[n].commits = 1
            /\ (~clctxDone /\ ~cf[k].acqErr) =>
                   /\ \A n \in Parts(k) : cf[k].parts[n].w = "done"
                   /\ (cf[k].rng.length > 0 /\ ~cf[k].eof) =>
                          Len(cf[k].parts) =
                              CeilDiv(cf[k].rng.length, parallelismChunkSize)

C2_Witness ==
    \E k \in Tasks :
        /\ PCReturned(k)
        /\ Cardinality(Failed(k)) = 1
        /\ Len(cf[k].parts) >= 3
        /\ ~clctxDone /\ ~cf[k].acqErr
        /\ cf[k].parts[1].err = "commit"
        /\ \A n \in Parts(k) \ Failed(k) : cf[k].parts[n].commits = 1

\* C3: at most p chunk workers of one parallelCopy call run at the same time.
C3_AtMostPWorkers ==
    \A k \in Tasks : Cardinality(Running(k)) <= parallelism

C3_Witness ==
    \E k \in Tasks :
        /\ parallelism = MaxP
        /\ Cardinality(Running(k)) = parallelism
        /\ cf[k].pc = "Go"
        /\ ~CtxDone(k)

\* C4, as stated: for a bounded transfer, when the loop ends without source
\* EOF or an acquisition error the sizes requested sum to exactly L.
C4_SumIsLengthUnlessEOF ==
    \A k \in Tasks :
        (/\ cf[k].pc = "Wait"
         /\ cf[k].rng.length >= 0 /\ parallelismChunkSize >= 1
         /\ ~cf[k].eof /\ ~cf[k].acqErr) =>
            cf[k].requested = cf[k].rng.length

\* C4, amended: for a bounded transfer of length L with chunkSize C >= 1,
\* each part is requested with size min(C, remaining); when the loop ends
\* without source EOF, acquisition error or refused submission, the sizes
\* requested sum to exactly L; after source EOF the parts returned sum to less
\* than L (the sizes requested to at most L) and EOF adds no error.
C4_SumIsLengthUnlessEOFOrRefused ==
    \A k \in Tasks :
        (cf[k].rng.err = "nil" /\ cf[k].rng.length >= 0 /\ parallelismChunkSize >= 1) =>
            /\ \A n \in Parts(k) :
                   cf[k].parts[n].size =
                       Min(parallelismChunkSize,
                           cf[k].rng.length - SumSizes(cf[k].parts, n - 1))
            /\ (cf[k].pc = "Wait" /\ ~cf[k].eof /\ ~cf[k].acqErr /\ ~cf[k].refused) =>
                   cf[k].requested = cf[k].rng.length
            /\ cf[k].eof =>
                   /\ SumSizes(cf[k].parts, Len(cf[k].parts)) < cf[k].rng.length
                   /\ cf[k].requested <= cf[k].rng.length
            /\ (PCReturned(k) /\ cf[k].eof /\ Failed(k) = {} /\ ~cf[k].commitFailed) =>
                   cf[k].perr = {}

C4_Witness ==
    \E k \in Tasks :
        /\ cf[k].pc = "Wait" /\ ~cf[k].eof /\ ~cf[k].refused
        /\ cf[k].rng.length = 3 /\ parallelismChunkSize = 2
        /\ Len(cf[k].parts) = 2
        /\ cf[k].parts[2].size = 1
        /\ cf[k].requested = 3

\* C5: the error parallelCopy returns holds every error its chunk workers
\* added to the aggregated set, on every exit path.
C5_EveryWorkerErrorReturned ==
    \A k \in Tasks : PCReturned(k) => cf[k].es \subseteq cf[k].perr

\* C6, as stated: when no part acquisition fails, parallelCopy returns an
\* error if and only if a chunk worker failed or the final dst.Commit failed.
C6_ErrorIffWorkerOrCommitFailed ==
    \A k \in Tasks :
        (PCReturned(k) /\ ~cf[k].acqErr) =>
            (cf[k].perr # {} <=> (Failed(k) # {} \/ cf[k].commitFailed))

\* C6, amended: when the initial src.SetOffset did not fail and no part
\* acquisition fails, parallelCopy returns an error if and only if a chunk
\* worker failed or the final dst.Commit failed; the dst.Commit error is in
\* the same aggregated set as the worker errors, which is what is returned.
C6_ErrorIffWorkerOrCommitFailedAfterSeek ==
    \A k \in Tasks :
        (PCReturned(k) /\ ~cf[k].acqErr /\ ErrSetOffset \notin cf[k].perr) =>
            /\ cf[k].perr # {} <=> (Failed(k) # {} \/ cf[k].commitFailed)
            /\ cf[k].commitFailed <=> ErrCommit \in cf[k].es
            /\ \A n \in Parts(k) : n \in Failed(k) <=> ErrWorker(n - 1) \in cf[k].es
            /\ cf[k].perr = cf[k].es
            /\ cf[k].dstCommits = 1

C6_Witness ==
    \E k \in Tasks :
        /\ PCReturned(k) /\ ~cf[k].acqErr
        /\ Failed(k) = {}
        /\ Len(cf[k].parts) >= 2
        /\ cf[k].commitFailed
        /\ cf[k].perr = {ErrCommit}

\* C8: called with chunkSize <= 0, parallelCopy returns an error without
\* requesting any part.
C8_RejectsChunkSizeBelowOne ==
    \A k \in Tasks :
        parallelismChunkSize <= 0 =>
            /\ cf[k].srcNextParts = 0 /\ cf[k].dstNextParts = 0
            /\ PCReturned(k) => cf[k].perr # {}

(***************************************************************************)
(* Properties of copyFile and parseRange.                                  *)
(***************************************************************************)
\* largest N and M of the range forms "N-M", "-N" and "N-" checked
MaxNum == 20

Prefixes == {<<>>, BytesPrefix}

\* the well-formed range expressions, each with the offset and length the
\* range grammar gives it
WellFormed ==
    {[r |-> pre, offset |-> 0, length |-> -1] : pre \in Prefixes}
    \cup UNION {{[r |-> pre \o Fmt(n) \o <<"-">> \o Fmt(m),
                   offset |-> n, length |-> m - n + 1] :
                     pre \in Prefixes, m \in n..MaxNum} : n \in 0..MaxNum}
    \cup {[r |-> pre \o <<"-">> \o Fmt(n), offset |-> -n, length |-> -1] :
            pre \in Prefixes, n \in 0..MaxNum}
    \cup {[r |-> pre \o Fmt(n) \o <<"-">>, offset |-> n, length |-> -1] :
            pre \in Prefixes, n \in 0..MaxNum}

WellFormedInputs == {e.r : e \in WellFormed}

\* copyFile of call k has called parseRange
Parsed(k) == cf[k].rng.err # "unset"

\* C7: with dry-run set, copyFile returns success without calling fs.Open,
\* fs.Create, SetOffset, NextPart, Commit or Abort on any handle.
C7_DryRunDoesNothing ==
    \A k \in Tasks :
        dryrun =>
            /\ cf[k].opens = 0 /\ cf[k].creates = 0
            /\ cf[k].setOffsets = 0
            /\ cf[k].srcNextParts = 0 /\ cf[k].dstNextParts = 0
            /\ cf[k].dstCommits = 0 /\ cf[k].dstAborts = 0 /\ cf[k].srcCloses = 0
            /\ cf[k].parts = <<>>
            /\ cf[k].pc \in {"idle", "copyFile", "returned"}
            /\ cf[k].pc = "returned" => cf[k].ret = {}

C7_Witness ==
    /\ dryrun /\ recursive /\ pc = "done"
    /\ Len(items) = 2
    /\ \A k \in 1..Len(items) :
           task[k] = "done" /\ cf[k].pc = "returned" /\ cf[k].ret = {}
    /\ result = {}

\* C9: with or without the "bytes=" prefix, parseRange returns (0,-1) for the
\* empty string, (N, M-N+1) for "N-M" with 0 <= N <= M, (-N,-1) for "-N" and
\* (N,-1) for "N-", for all N, M up to MaxNum.
C9_ParsesWellFormedRanges ==
    \A k \in Tasks :
        (Parsed(k) /\ byteRange \in WellFormedInputs) =>
            \A e \in WellFormed :
                byteRange = e.r =>
                    cf[k].rng = RangeOk(e.offset, e.length)

C9_Witness ==
    \E k \in Tasks :
        /\ Parsed(k)
        /\ byteRange = BytesPrefix \o <<"1", "0", "-", "2", "0">>
        /\ cf[k].rng = RangeOk(10, 11)
        /\ cf[k].pc = "Open"

\* the range expression proper: the input trimmed, without its prefix
Body(r) == TrimPrefix(TrimSpace(r), BytesPrefix)

\* a numeral: an optional sign, then digits only, at least one
IsNumeral(s) ==
    LET digs == IF s # <<>> /\ Head(s) \in {"+", "-"} THEN Tail(s) ELSE s
    IN  digs # <<>> /\ \A n \in 1..Len(digs) : IsDigit(digs[n])

\* the two sides of the first "-" of a range expression, trimmed
StartOf(b) == TrimSpace(SubSeq(b, 1, Index(b, "-")))
EndOf(b) == TrimSpace(SubSeq(b, Index(b, "-") + 2, Len(b)))

\* "-N-M": a negative N in N-M form
NegativeStart ==
    {pre \o <<"-">> \o Fmt(n) \o <<"-">> \o Fmt(m) :
        pre \in Prefixes, n \in 1..MaxNum, m \in 0..MaxNum}

\* "N-M" with N > M
StartAboveEnd ==
    UNION {{pre \o Fmt(n) \o <<"-">> \o Fmt(m) : pre \in Prefixes, m \in 0..(n - 1)} :
              n \in 1..MaxNum}

\* the malformed range expressions: multi-range, no "-", neither start nor
\* end, a start or an end that is no number, a negative N in N-M, N > M
Malformed(r) ==
    \/ Contains(r, ",")
    \/ Body(r) # <<>> /\ ~Contains(Body(r), "-")
    \/ Contains(Body(r), "-") /\ StartOf(Body(r)) = <<>> /\ EndOf(Body(r)) = <<>>
    \/ Contains(Body(r), "-") /\ StartOf(Body(r)) # <<>> /\ ~IsNumeral(StartOf(Body(r)))
    \/ Contains(Body(r), "-") /\ EndOf(Body(r)) # <<>> /\ ~IsNumeral(EndOf(Body(r)))
    \/ r \in NegativeStart
    \/ r \in StartAboveEnd

\* the errors of parseRange: all read "invalid range..."
InvalidRange == {
    "invalid range", "invalid range: must be single range", "invalid range: no -",
    "invalid range: syntax", "invalid range: negative start",
    "invalid range: start > end" }

\* C10: parseRange fails with an invalid-range error, and returns no usable
\* offset and length, for every malformed range expression (a range
\* expression that is empty after trimming and prefix strip is the whole
\* object, not a range without "-").
C10_RejectsMalformedRanges ==
    \A k \in Tasks :
        (Parsed(k) /\ Malformed(byteRange)) =>
            /\ cf[k].rng.err # "nil"
            /\ cf[k].rng.err \in InvalidRange
            /\ cf[k].rng.offset = 0 /\ cf[k].rng.length = 0
            /\ cf[k].pc = "returned" /\ cf[k].ret = {ErrParse}

C10_Witness ==
    \E k \in Tasks :
        /\ Parsed(k)
        /\ byteRange = BytesPrefix \o <<"2", "0", "-", "1", "0">>
        /\ cf[k].rng.err = "invalid range: start > end"
        /\ cf[k].ret = {ErrParse}

(***************************************************************************)
(* Properties of copyRecursive.                                            *)
(***************************************************************************)
\* C11: when the recursive listing ended with an error after file tasks had
\* failed, what copyRecursive returns holds the listing error and also every
\* per-file error collected in the aggregated set.
C11_ListingErrorKeepsFileErrors ==
    (recursive /\ pc = "done" /\ iterErr) =>
        /\ ErrIter \in result
        /\ es \subseteq result

\* the file tasks submitted so far, and the (source, destination) pairs
\* of a set of transfers
Submitted == {k \in Tasks : task[k] # "none"}

Pairs(S) == {<<cf[k].source, cf[k].dest>> : k \in S}

\* entries a/1, a/2, a/b/3 under source a/ onto d/ give d/1, d/2, d/b/3
ExamplePairs == {
    <<NewLocal(<<"a", "/", "1">>), NewLocal(<<"d", "/", "1">>)>>,
    <<NewLocal(<<"a", "/", "2">>), NewLocal(<<"d", "/", "2">>)>>,
    <<NewLocal(<<"a", "/", "b", "/", "3">>), NewLocal(<<"d", "/", "b", "/", "3">>)>> }

\* C12: in a recursive copy the file task of each listed entry is submitted
\* with the entry as source and joinDestWith(dest, path of the entry relative
\* to source) as destination, and opens and creates exactly these, in every
\* interleaving of the file tasks; a/1, a/2, a/b/3 under a/ onto d/ give d/1,
\* d/2, d/b/3.
C12_DestinationsFixedAtSubmission ==
    recursive =>
        /\ \A k \in Submitted :
               /\ k <= listed
               /\ cf[k].source = items[k].Loc
               /\ cf[k].dest =
                      joinDestWith(dest, RelativeTo(source, items[k].Loc).rel)
               /\ cf[k].opens > 0 => cf[k].opened = items[k].Loc
               /\ cf[k].creates > 0 => cf[k].created = cf[k].dest
        /\ \A k \in Tasks \ Submitted : cf[k].opens = 0 /\ cf[k].creates = 0
        /\ (Local(source) /\ Local(dest) /\ Submitted = 1..Len(items)) =>
               Pairs(Submitted) = ExamplePairs

C12_Witness ==
    /\ recursive /\ ~dryrun /\ pc = "done" /\ transfers >= 2
    /\ source = NewLocal(<<"a", "/">>)
    /\ \A k \in 1..3 : task[k] = "done" /\ cf[k].creates = 1
    /\ {<<cf[k].opened, cf[k].created>> : k \in 1..3} = ExamplePairs

\* C13: what joinDestWith returns is never both local and directoryish: a
\* local result has its trailing separator stripped (remote object "foo/"
\* copied into a local directory gives local file "foo"), while a remote
\* result keeps the appended key unchanged.
C13_JoinedDestNeverLocalDirectory ==
    \A k \in Tasks :
        cf[k].dest # NoLoc =>
            /\ ~(Local(cf[k].dest) /\ Directoryish(cf[k].dest))
            /\ (recursive /\ Remote(cf[k].dest)) =>
                   cf[k].dest.key = dest.key \o RelativeTo(source, items[k].Loc).rel
            /\ (~recursive /\ Remote(cf[k].dest)) =>
                   \E d \in FileDests :
                       /\ Remote(d)
                       /\ cf[k].dest.bucket = d.bucket
                       /\ cf[k].dest.key =
                              IF Directoryish(d) /\ ~Std(source)
                              THEN d.key \o Base(Undirectoryish(source)).base
                              ELSE d.key
            /\ (/\ Local(cf[k].dest)
                /\ cf[k].source \in {NewRemote(<<"b">>, <<"f", "o", "o", "/">>),
                                     NewRemote(<<"b">>, <<"a", "/", "f", "o", "o", "/">>)}) =>
                   /\ cf[k].dest \in {NewLocal(<<"d", "/", "f", "o", "o">>), NewLocal(<<"d">>)}
                   /\ recursive => cf[k].dest = NewLocal(<<"d", "/", "f", "o", "o">>)

C13_Witness ==
    \E k \in Tasks :
        /\ recursive
        /\ cf[k].source = NewRemote(<<"b">>, <<"a", "/", "f", "o", "o", "/">>)
        /\ cf[k].created = NewLocal(<<"d", "/", "f", "o", "o">>)

\* C14: a recursive copy with a non-empty byte range, or with the standard
\* stream as source or destination, fails with an error before fs.List is
\* called, any entry is listed, any handle is opened or created and any file
\* task is submitted.
C14_RecursiveRejectsRangeAndStd ==
    (recursive /\ (byteRange # <<>> \/ Std(source) \/ Std(dest))) =>
        /\ lists = 0 /\ listed = 0
        /\ Submitted = {}
        /\ \A k \in Tasks : cf[k] = NewCall
        /\ pc \in {"Execute", "opened", "done"}
        /\ pc = "done" => result # {}

C14_Witness ==
    /\ recursive /\ byteRange = <<>>
    /\ Local(source) /\ Std(dest)
    /\ pc = "done" /\ result = {ErrStd}

(***************************************************************************)
(* Properties of the shared streams and pools.                             *)
(***************************************************************************)
\* the threads inside a write to the command's stderr: the loop of a
\* parallelCopy call (lines 304, 315) and a file task (line 184)
StderrWriters ==
    {<<"parallelCopy", k>> : k \in {j \in Tasks : cf[j].pc = "print"}}
    \cup {<<"task", k>> : k \in {j \in Tasks : task[j] = "print"}}

\* the mutex a writer holds: mu of its parallelCopy call (line 280), or mu of
\* copyRecursive (line 155)
MutexOf(writer) ==
    IF writer[1] = "parallelCopy" THEN <<"parallelCopy.mu", writer[2]>>
    ELSE <<"copyRecursive.mu", 0>>

\* C15: no two threads write to the same output stream at the same time
\* without holding one common mutex, in any interleaving, a recursive copy
\* with several parallelCopy calls at once included.
C15_OneMutexPerStream ==
    \A a, b \in StderrWriters : a # b => MutexOf(a) = MutexOf(b)

\* the chunk workers running, of all parallelCopy calls
AllRunning == {<<k, n>> \in Tasks \X (1..MaxParts) : n \in Running(k)}

\* C16: in a recursive copy at most `transfers` file tasks run at the same
\* time, each with a chunk limiter of its own of `parallelism` slots, so the
\* chunk workers running across the whole tree copy never exceed
\* transfers x parallelism.
C16_AtMostTransfersTimesParallelism ==
    recursive =>
        /\ Cardinality(RunningTasks) <= transfers
        /\ \A k \in Tasks :
               /\ Cardinality(Running(k)) <= parallelism
               /\ Running(k) # {} => k \in RunningTasks
        /\ Cardinality(AllRunning) <= transfers * parallelism

C16_Witness ==
    /\ recursive /\ transfers = 2 /\ parallelism = 1
    /\ Cardinality(RunningTasks) = transfers
    /\ Cardinality(AllRunning) = transfers * parallelism
    /\ \A k \in RunningTasks : cf[k].pc = "Wait"
    /\ pc = "Wait"

(***************************************************************************)
(* Properties of the steps of parallelCopy.                                *)
(***************************************************************************)
\* the part pairs of call k handed to a worker, and those whose worker is done
Handed(k) == {n \in Parts(k) : cf[k].parts[n].w # "held"}

Done(k) == {n \in Parts(k) : cf[k].parts[n].w = "done"}

PCEntered(k) ==
    /\ cf[k].creates = 1
    /\ cf[k].pc # "parallelCopy"
    /\ cf[k].ret # {ErrCreate}

\* C18: parallelCopy calls src.SetOffset exactly when offset != 0, once, and
\* before any NextPart call; when SetOffset fails it returns that error and
\* src.NextPart, dst.NextPart and dst.Commit are never called.
C18_SeekOnceBeforeAnyPart ==
    \A k \in Tasks :
        /\ PCEntered(k) =>
               cf[k].setOffsets = (IF cf[k].rng.offset # 0 THEN 1 ELSE 0)
        /\ ~PCEntered(k) =>
               cf[k].setOffsets = 0 /\ cf[k].srcNextParts = 0 /\ cf[k].dstNextParts = 0
        /\ ErrSetOffset \in cf[k].perr =>
               /\ cf[k].perr = {ErrSetOffset}
               /\ cf[k].rng.offset # 0
               /\ cf[k].srcNextParts = 0 /\ cf[k].dstNextParts = 0
               /\ cf[k].dstCommits = 0
               /\ cf[k].parts = <<>>
               /\ cf[k].pc \in {"parallelCopyReturned", "returned"}
               /\ cf[k].pc = "returned" => cf[k].ret = {ErrSetOffset}

C18_Witness ==
    \E k \in Tasks :
        /\ cf[k].rng.offset = -1
        /\ cf[k].setOffsets = 1
        /\ cf[k].perr = {ErrSetOffset}
        /\ cf[k].pc = "returned"

\* C19: when src.NextPart reports end-of-stream for part i the loop stops
\* and records no error: no destination part is requested for index i, no
\* further source part is requested, the workers submitted are waited for,
\* dst.Commit is called, and the result is success when no worker and the
\* commit did not fail.
C19_EndOfStreamStopsWithoutError ==
    \A k \in Tasks :
        cf[k].eof =>
            /\ ~cf[k].acqErr
            /\ cf[k].srcNextParts = Len(cf[k].parts) + 1
            /\ cf[k].dstNextParts = Len(cf[k].parts)
            /\ Handed(k) = Parts(k)
            /\ cf[k].i = Len(cf[k].parts)
            /\ cf[k].pc \in {"Wait", "Commit", "deferred", "deferredWait",
                             "parallelCopyReturned", "returned"}
            /\ cf[k].pc # "Wait" => Done(k) = Parts(k)
            /\ cf[k].dstCommits = (IF cf[k].pc \in {"Wait", "Commit"} THEN 0 ELSE 1)
            /\ cf[k].perr \subseteq {ErrCommit} \cup {ErrWorker(n - 1) : n \in Parts(k)}
            /\ cf[k].pc \in {"parallelCopyReturned", "returned"} =>
                   (cf[k].perr = {} <=> (Failed(k) = {} /\ ~cf[k].commitFailed))

C19_Witness ==
    \E k \in Tasks :
        /\ cf[k].eof
        /\ cf[k].rng.length = 3
        /\ Len(cf[k].parts) = 1
        /\ PCReturned(k)
        /\ cf[k].dstCommits = 1
        /\ cf[k].perr = {}

\* C20: after src.NextPart failed with anything but end-of-stream, or
\* dst.NextPart failed, no further NextPart call is made on either handle,
\* no further worker is submitted, and parallelCopy returns the acquisition
\* error.
C20_AcquisitionFailureStopsTheLoop ==
    \A k \in Tasks :
        cf[k].acqErr =>
            /\ cf[k].pc \in {"print", "deferred", "deferredWait",
                             "parallelCopyReturned", "returned"}
            /\ cf[k].i = Cardinality(Handed(k))
            /\ \/ /\ cf[k].perr = {ErrSrcPart(cf[k].i)}
                  /\ cf[k].srcNextParts = Len(cf[k].parts) + 1
                  /\ cf[k].dstNextParts = Len(cf[k].parts)
                  /\ Handed(k) = Parts(k)
               \/ /\ cf[k].perr = {ErrDstPart(cf[k].i)}
                  /\ cf[k].srcNextParts = Len(cf[k].parts)
                  /\ cf[k].dstNextParts = Len(cf[k].parts)
                  /\ Handed(k) = Parts(k) \ {Len(cf[k].parts)}
                  /\ cf[k].parts[Len(cf[k].parts)].closes = 1
            /\ cf[k].dstCommits = 0
            /\ cf[k].pc = "returned" => cf[k].ret = cf[k].perr

C20_Witness ==
    \E k \in Tasks :
        /\ cf[k].acqErr
        /\ cf[k].perr = {ErrDstPart(1)}
        /\ Len(cf[k].parts) = 2
        /\ cf[k].parts[1].w = "done"
        /\ cf[k].pc = "returned"

\* parallelCopy of call k has returned
PCOver(k) == cf[k].pc \in {"parallelCopyReturned", "returned"}

\* C21: parallelCopy never returns while a chunk worker it submitted is
\* still running, on every exit path; and the final dst.Commit is invoked
\* only after every submitted worker has finished.
C21_WorkersFinishBeforeCommitAndReturn ==
    \A k \in Tasks :
        /\ PCOver(k) => Running(k) = {} /\ Handed(k) = Done(k)
        /\ (cf[k].pc = "Commit" \/ cf[k].dstCommits > 0) =>
               Running(k) = {} /\ Handed(k) = Done(k)

C21_Witness ==
    \E k \in Tasks :
        /\ PCReturned(k)
        /\ cf[k].acqErr
        /\ Cardinality(Done(k)) = 2
        /\ cf[k].dstCommits = 0

\* C22, as stated: once parallelCopy has passed the initial seek it always
\* calls src.Close and always calls dst.Commit before it returns, whatever
\* path ends the loop.
C22_AlwaysCloseAndCommit ==
    \A k \in Tasks :
        (PCReturned(k) /\ ErrSetOffset \notin cf[k].perr) =>
            /\ cf[k].srcCloses = 1
            /\ cf[k].dstCommits = 1

\* C22, amended: once parallelCopy has passed the initial seek it always
\* calls src.Close (and the deferred dst.Abort) once before it returns, and
\* it calls dst.Commit once before it returns when the loop ended by length
\* exhausted, source EOF or refused submission; after a part-acquisition
\* failure it returns without calling dst.Commit.
C22_AlwaysCloseCommitUnlessAcquisitionFailed ==
    \A k \in Tasks :
        /\ (PCReturned(k) /\ ErrSetOffset \notin cf[k].perr) =>
               /\ cf[k].srcCloses = 1
               /\ cf[k].dstAborts = 1
               /\ cf[k].dstCommits = (IF cf[k].acqErr THEN 0 ELSE 1)
               /\ ~cf[k].acqErr =>
                      \/ cf[k].eof
                      \/ cf[k].refused
                      \/ cf[k].length = 0
        /\ (PCReturned(k) /\ ErrSetOffset \in cf[k].perr) =>
               cf[k].srcCloses = 0 /\ cf[k].dstAborts = 0 /\ cf[k].dstCommits = 0

C22_Witness ==
    \E k \in Tasks :
        /\ PCReturned(k)
        /\ cf[k].refused
        /\ Len(cf[k].parts) = 2
        /\ cf[k].srcCloses = 1 /\ cf[k].dstCommits = 1

\* C23: parts are acquired and submitted strictly in index order by the one
\* loop: src.NextPart for part i, then dst.NextPart for part i with the same
\* size, then the submission of worker i, then src.NextPart for part i+1; a
\* submission waits while p workers are running, and every pair accepted is
\* run by one worker, none dropped or reordered.
C23_AcquiredAndSubmittedInIndexOrder ==
    \A k \in Tasks :
        /\ Handed(k) = 1..cf[k].i
        /\ Cardinality(Running(k)) <= parallelism
        /\ \A n \in Parts(k) :
               /\ cf[k].parts[n].wh => cf[k].parts[n].whSize = cf[k].parts[n].size
               /\ n <= cf[k].dstNextParts =>
                      cf[k].parts[n].whSize = cf[k].parts[n].size
        /\ cf[k].pc = "loop" =>
               /\ cf[k].srcNextParts = cf[k].i /\ cf[k].dstNextParts = cf[k].i
               /\ Len(cf[k].parts) = cf[k].i
        /\ cf[k].pc = "dstNextPart" =>
               /\ cf[k].srcNextParts = cf[k].i + 1 /\ cf[k].dstNextParts = cf[k].i
               /\ Len(cf[k].parts) = cf[k].i + 1
        /\ cf[k].pc = "Go" =>
               /\ cf[k].srcNextParts = cf[k].i + 1 /\ cf[k].dstNextParts = cf[k].i + 1
               /\ Len(cf[k].parts) = cf[k].i + 1
               /\ cf[k].parts[cf[k].i + 1].wh
        /\ cf[k].srcNextParts \in {cf[k].i, cf[k].i + 1}
        /\ cf[k].dstNextParts \in {cf[k].i, cf[k].i + 1}
        /\ cf[k].dstNextParts <= cf[k].srcNextParts

C23_Witness ==
    \E k \in Tasks :
        /\ cf[k].pc = "Go" /\ ~CtxDone(k)
        /\ parallelism = 2
        /\ cf[k].i = 2
        /\ Cardinality(Running(k)) = 2
        /\ cf[k].parts[3].wh

(***************************************************************************)
(* Properties of the file tasks of copyRecursive.                          *)
(***************************************************************************)
\* copyRecursive was entered and fs.List returned a listing
Listed == recursive /\ lists = 1 /\ ErrList \notin result

\* the path of every entry of the listing relative to the source exists
AllRelative == \A n \in 1..Len(items) : RelativeTo(source, items[n].Loc).ok

\* the file tasks whose copyFile returned an error
FailedTasks == {k \in Tasks : cf[k].ret # {}}

\* C24, as stated: in a recursive copy without cancellation and without
\* listing error every listed entry is submitted and copyFile invoked for it
\* exactly once, and copyRecursive returns an error if and only if a file
\* task failed.
C24_FailingTaskSparesSiblings ==
    (Listed /\ pc = "done" /\ ~clctxDone /\ ~iterErr) =>
        /\ \A k \in 1..Len(items) : task[k] = "done" /\ cf[k].calls = 1
        /\ result # {} <=> FailedTasks # {}

\* C24, amended: in a recursive copy without cancellation, without listing
\* error and without an entry whose path relative to the source cannot be
\* computed, a failing file task does not stop its siblings: every listed
\* entry is submitted and copyFile invoked for it exactly once, and
\* copyRecursive returns an error if and only if a file task failed.
C24_FailingTaskSparesSiblingsUnderSource ==
    /\ \A k \in Tasks : cf[k].calls <= 1
    /\ (Listed /\ pc = "done" /\ ~clctxDone /\ ~iterErr /\ AllRelative) =>
           /\ listed = Len(items)
           /\ \A k \in 1..Len(items) : task[k] = "done" /\ cf[k].calls = 1
           /\ result # {} <=> FailedTasks # {}
           /\ result = {ErrFile(k) : k \in FailedTasks}

C24_Witness ==
    /\ Listed /\ pc = "done" /\ ~clctxDone /\ ~iterErr /\ AllRelative
    /\ Len(items) = 2
    /\ cf[1].ret # {} /\ cf[1].opens = 1 /\ cf[1].creates = 0
    /\ cf[2].ret = {} /\ cf[2].dstCommits = 1
    /\ result = {ErrFile(1)}

\* C25: copyRecursive never returns while a file task it submitted is still
\* running, on every exit path: listing exhausted, submission refused after
\* cancellation, failure to compute an entry's path relative to the source.
C25_TasksFinishBeforeReturn ==
    (recursive /\ pc = "done") => RunningTasks = {}

\* C28: copyRecursive returns success only if every entry the listing
\* produced was submitted and copied without error; when submission stopped
\* on cancellation and left listed entries unsubmitted, the result is not
\* success.
C28_SuccessMeansEveryEntryCopied ==
    (Listed /\ pc = "done" /\ result = {}) =>
        \A k \in 1..listed : task[k] = "done" /\ cf[k].ret = {}

(***************************************************************************)
(* Properties of the exits of parallelCopy.                                *)
(***************************************************************************)
\* C26: parallelCopy returns success only if every chunk up to the end of
\* the range or source EOF was acquired, streamed and committed; when a
\* submission is refused on cancellation the call does not return success
\* and the truncated destination gets no successful dst.Commit.
C26_RefusedSubmissionIsNotSuccess ==
    \A k \in Tasks :
        PCReturned(k) =>
            /\ cf[k].refused =>
                   /\ cf[k].perr # {}
                   /\ cf[k].dstCommits = 0 \/ cf[k].commitFailed
            /\ cf[k].perr = {} =>
                   /\ cf[k].eof \/ cf[k].length = 0
                   /\ \A n \in Parts(k) : cf[k].parts[n].commits = 1

\* C27: the source is never closed and the destination never aborted by
\* parallelCopy while one of its chunk workers is still running.
C27_CloseAndAbortAfterWorkers ==
    \A k \in Tasks :
        (cf[k].srcCloses > 0 \/ cf[k].dstAborts > 0) => Running(k) = {}

(***************************************************************************)
(* Properties of parseRange at the edges of its input.                     *)
(***************************************************************************)
\* C29: for every pair of integers 0 <= N <= M that parseRange accepts in
\* N-M form, the returned length is M-N+1 and at least 1, without
\* wrap-around of the result (N = 0 with M the largest integer included).
C29_BoundedRangeLengthNeverWraps ==
    \A k \in Tasks :
        LET b == Body(byteRange)
            N == ParseInt(StartOf(b))
            M == ParseInt(EndOf(b))
        IN  (/\ Parsed(k) /\ cf[k].rng.err = "nil"
             /\ Contains(b, "-") /\ N.ok /\ M.ok
             /\ 0 <= N.val /\ N.val <= M.val) =>
                /\ cf[k].rng.offset = N.val
                /\ cf[k].rng.length = M.val - N.val + 1
                /\ cf[k].rng.length >= 1

\* C30: for a range with the start omitted, parseRange either fails or
\* returns a suffix range with offset <= 0 and length -1; a start-omitted
\* range whose number is negative, as "--5", is rejected.
C30_StartOmittedIsSuffixRange ==
    \A k \in Tasks :
        LET b == Body(byteRange)
        IN  (Parsed(k) /\ Contains(b, "-") /\ StartOf(b) = <<>>) =>
                \/ cf[k].rng.err # "nil"
                \/ /\ cf[k].rng.offset <= 0 /\ cf[k].rng.length = -1
                   /\ ParseInt(EndOf(b)).val >= 0

(***************************************************************************)
(* Termination of parallelCopy.                                            *)
(***************************************************************************)
\* the transfer of call k is bounded: parseRange returned a positive length
Bounded(k) == cf[k].rng.err = "nil" /\ cf[k].rng.length > 0

\* the transfer of call k runs to the end of the source
Unbounded(k) == cf[k].rng.err = "nil" /\ cf[k].rng.length < 0

\* the loop of parallelCopy of call k is over
LoopOver(k) ==
    cf[k].pc \in {"Wait", "Commit", "print", "deferred", "deferredWait",
                  "parallelCopyReturned", "returned"}
    /\ cf[k].setOffsets + cf[k].srcNextParts > 0

\* call k is inside parallelCopy: called and not yet returned
InParallelCopy(k) ==
    cf[k].pc \in {"parallelCopy", "loop", "dstNextPart", "Go", "print", "Wait",
                  "Commit", "deferred", "deferredWait"}

\* C31: under fair scheduling, with every collaborator call returning, a
\* chunk size of at least 1 and a source that is bounded by the range or
\* eventually reports end-of-stream, parallelCopy eventually returns (from
\* some point on no call is inside parallelCopy, and a call is made once); a
\* bounded transfer of length L requests at most ceil(L / chunkSize) source
\* parts, and an unbounded transfer requests parts until the source reports
\* end-of-stream (or an acquisition fails or a submission is refused).
C31_ParallelCopyEventuallyReturns ==
    /\ <>[](\A k \in Tasks : ~InParallelCopy(k))
    /\ [](\A k \in Tasks :
            /\ Bounded(k) =>
                   cf[k].srcNextParts <= CeilDiv(cf[k].rng.length, parallelismChunkSize)
            /\ (Unbounded(k) /\ LoopOver(k)) =>
                   \/ cf[k].eof \/ cf[k].acqErr \/ cf[k].refused
                   \/ ErrSetOffset \in cf[k].perr
            /\ (Unbounded(k) /\ cf[k].eof) =>
                   cf[k].srcNextParts = Len(cf[k].parts) + 1)

C31_Witness ==
    /\ PCReturned(1) /\ Unbounded(1) /\ cf[1].eof /\ ~clctxDone
    /\ parallelism = 1
    /\ Len(cf[1].parts) = MaxParts
    /\ cf[1].srcNextParts = MaxParts + 1
    /\ \A n \in Parts(1) : cf[1].parts[n].w = "done"
====
